---- MODULE Spec2Model ----
(***************************************************************************)
(* The energy-based beat detector of music-visualization/js/BeatDetector.js *)
(* as a state machine.                                                     *)
(*                                                                         *)
(* Numbers.  The JavaScript works on doubles; the model works on exact     *)
(* rationals carried by integers:                                          *)
(*   - an energy sample is an integer number of hundredths (0..100 stands  *)
(*     for the documented input range [0,1]);                              *)
(*   - sensitivity is an integer number of tenths (14 stands for 1.4);     *)
(*   - decayRate is an integer number of hundredths (93 stands for 0.93);  *)
(*   - timestamps and cooldownMs are integer milliseconds;                 *)
(*   - beatIntensity is the record [num, den, decays] standing for         *)
(*     (num/den) * decayRate^decays, with 0 written [0, 1, 0].             *)
(* Comparisons against a square root are done on the squares, so every     *)
(* comparison of the code is decided exactly (no rounding is modelled).    *)
(***************************************************************************)
EXTENDS Integers, Sequences, FiniteSets, TLC

VARIABLES
    sensitivity,    \* this.sensitivity, in tenths
    decayRate,      \* this.decayRate, in hundredths
    cooldownMs,     \* this.cooldownMs
    historyLength,  \* this.historyLength
    energyHistory,  \* this.energyHistory
    lastBeatTime,   \* this.lastBeatTime
    beatIntensity,  \* this.beatIntensity
    _isBeat,        \* this._isBeat
    beatCount,      \* this.beatCount
    beatTimes,      \* this.beatTimes
    estimatedBPM,   \* this.estimatedBPM
    levels,         \* environment: the energy values the signal source emits
    times,          \* environment: the timestamps the host passes to update
    given,          \* environment: the options object passed to the constructor
    train,          \* environment: the periodic impulse train being fed, if any
    reported,       \* history: timestamps of the update calls that reported a beat
                    \* since construction or the last reset
    lastCall,       \* history: the last call made, and for reset() the beat count
                    \* and the tempo it discarded
    fed,            \* history: the energy samples passed to update, in arrival
                    \* order, where the scenario records them
    registry,       \* DemoRunner: this.registry, demo id -> demo class
    canvas,         \* DemoRunner: this.canvas
    currentDemo,    \* DemoRunner: this.currentDemo, an index into demos or Null
    currentOptions, \* DemoRunner: this.currentOptions
    demos,          \* every BaseDemo instance constructed so far, in order
    runnerCall,     \* history: the last DemoRunner call or animation frame, its
                    \* arguments and what it did
    circles,        \* CirclePackingDemo: this.circles, the growing flag of each
    attempts,       \* CirclePackingDemo: this.attempts
    complete,       \* CirclePackingDemo: this.complete
    packingOptions, \* CirclePackingDemo: this.options (maxCircles, newPerFrame)
    bodies,         \* GravitySimDemo: this.bodies, each [central, mass]
    gravityOptions, \* GravitySimDemo: this.options (merge)
    gravityCall     \* history: the last call the gravity demo received and the
                    \* number of clicks so far

config == <<sensitivity, decayRate, cooldownMs, historyLength>>
state == <<energyHistory, lastBeatTime, beatIntensity, _isBeat, beatCount,
           beatTimes, estimatedBPM>>
env == <<levels, times, given>>
runner == <<registry, canvas, currentDemo, currentOptions, demos, runnerCall>>
packing == <<circles, attempts, complete, packingOptions>>
gravity == <<bodies, gravityOptions, gravityCall>>
sketches == <<packing, gravity>>
vars == <<config, state, env, train, reported, lastCall, fed, runner, sketches>>

----------------------------------------------------------------------------
(* Program constants *)

DefaultSensitivity == 14
DefaultDecayRate == 93
DefaultCooldownMs == 180
DefaultHistoryLength == 30
MinSamples == 10
Epsilon == 1
MaxBeatTimes == 16
MinTempoBeats == 4
MinInterval == 200
MaxInterval == 2000
MinValidIntervals == 3
MsPerMinute == 60000

(* Bounds of the model *)

MaxDecays == 8
MaxTrainMs == 3600
MaxSpikeFrames == 24
MaxLongTrainMs == 12600

----------------------------------------------------------------------------
(* Arithmetic helpers *)

RECURSIVE Sum(_)
Sum(s) == IF s = <<>> THEN 0 ELSE Head(s) + Sum(Tail(s))

RECURSIVE SumSq(_)
SumSq(s) == IF s = <<>> THEN 0 ELSE Head(s) * Head(s) + SumSq(Tail(s))

RECURSIVE GCD(_, _)
GCD(a, b) == IF b = 0 THEN a ELSE GCD(b, a % b)

\* a > b * sqrt(v), for integers a, b and v >= 0, decided on the squares.
GtScaledRoot(a, b, v) ==
    IF b >= 0
    THEN a > 0 /\ a * a > b * b * v
    ELSE (a >= 0 /\ (a > 0 \/ v > 0)) \/ (a < 0 /\ a * a < b * b * v)

\* The rational num/den (den > 0) in lowest terms, not yet decayed.
Frac(num, den) ==
    IF num = 0 THEN [num |-> 0, den |-> 1, decays |-> 0]
    ELSE LET g == GCD(IF num < 0 THEN -num ELSE num, den)
         IN  [num |-> num \div g, den |-> den \div g, decays |-> 0]

Zero == [num |-> 0, den |-> 1, decays |-> 0]
One == [num |-> 1, den |-> 1, decays |-> 0]

----------------------------------------------------------------------------
(* constructor(options): an option is <<>> when absent and <<v>> when given. *)

\* Faulty variant: only an absent option falls back to the default.
OrDefaultIfAbsent(opt, default) ==
    IF opt # <<>> THEN opt[1] ELSE default

OrDefault(opt, default) ==
    IF opt # <<>> /\ opt[1] # 0 THEN opt[1] ELSE default

\* The state fields as the constructor and reset() set them.  Faulty variant:
\* the last beat is taken to lie long before the first sample.
FreshStateLongAgo ==
    [energyHistory |-> <<>>, lastBeatTime |-> -1000, beatIntensity |-> Zero,
     _isBeat |-> FALSE, beatCount |-> 0, beatTimes |-> <<>>, estimatedBPM |-> 0]

FreshState ==
    [energyHistory |-> <<>>, lastBeatTime |-> 0, beatIntensity |-> Zero,
     _isBeat |-> FALSE, beatCount |-> 0, beatTimes |-> <<>>, estimatedBPM |-> 0]

Constructor(options) ==
    /\ given = options
    /\ sensitivity = OrDefault(options.sensitivity, DefaultSensitivity)
    /\ decayRate = OrDefault(options.decayRate, DefaultDecayRate)
    /\ cooldownMs = OrDefault(options.cooldownMs, DefaultCooldownMs)
    /\ historyLength = OrDefault(options.historyLength, DefaultHistoryLength)
    /\ energyHistory = FreshState.energyHistory
    /\ lastBeatTime = FreshState.lastBeatTime
    /\ beatIntensity = FreshState.beatIntensity
    /\ _isBeat = FreshState._isBeat
    /\ beatCount = FreshState.beatCount
    /\ beatTimes = FreshState.beatTimes
    /\ estimatedBPM = FreshState.estimatedBPM

----------------------------------------------------------------------------
(* update(bassEnergy, currentTime) *)

\* Faulty variant: the window is never shortened.
PushEnergyUncapped(h, bassEnergy) == Append(h, bassEnergy)

\* Faulty variant: a full window starts over with the new sample.
PushEnergyStartsOver(h, bassEnergy) ==
    LET pushed == Append(h, bassEnergy)
    IN  IF Len(pushed) > historyLength THEN <<bassEnergy>> ELSE pushed

\* energyHistory.push(bassEnergy); shift() when longer than historyLength
PushEnergy(h, bassEnergy) ==
    LET pushed == Append(h, bassEnergy)
    IN  IF Len(pushed) > historyLength THEN Tail(pushed) ELSE pushed

\* Faulty variant: the warm-up guard one sample short.
WarmingUpOffByOne(h) == Len(h) < MinSamples - 1

\* energyHistory.length < 10
WarmingUp(h) == Len(h) < MinSamples

\* bassEnergy > threshold, threshold = avgEnergy + sensitivity * stdDev.
\* With n = Len(h), S = Sum(h), Q = SumSq(h): avgEnergy = S/n and
\* stdDev = sqrt(n*Q - S*S)/n, so the test is 10*(n*e - S) > sensitivity*sqrt(n*Q - S*S).
AboveThreshold(h, bassEnergy) ==
    LET n == Len(h)
        S == Sum(h)
    IN  GtScaledRoot(10 * (n * bassEnergy - S), sensitivity, n * SumSq(h) - S * S)

\* Faulty variant: the comparison with the mean without the sensitivity factor.
AboveAverageUnscaled(h, bassEnergy) == Len(h) * bassEnergy > Sum(h)

\* bassEnergy > avgEnergy * sensitivity
AboveAverage(h, bassEnergy) ==
    10 * Len(h) * bassEnergy > Sum(h) * sensitivity

\* Faulty variant: the distance to the last beat counts in either direction.
CooledDownEitherWay(currentTime, last) ==
    currentTime - last > cooldownMs \/ last - currentTime > cooldownMs

\* Faulty variant: a beat exactly cooldownMs after the last one is let through.
CooledDownInclusive(currentTime, last) == currentTime - last >= cooldownMs

\* timeSinceLastBeat > cooldownMs
CooledDown(currentTime, last) == currentTime - last > cooldownMs

\* Faulty variant: the two energy comparisons not strict.
BeatConditionInclusive(h, bassEnergy, currentTime, last) ==
    /\ ~GtScaledRoot(10 * (Sum(h) - Len(h) * bassEnergy), -sensitivity,
                     Len(h) * SumSq(h) - Sum(h) * Sum(h))
    /\ 10 * Len(h) * bassEnergy >= Sum(h) * sensitivity
    /\ currentTime - last > cooldownMs

BeatCondition(h, bassEnergy, currentTime, last) ==
    /\ AboveThreshold(h, bassEnergy)
    /\ AboveAverage(h, bassEnergy)
    /\ CooledDown(currentTime, last)

\* Faulty variant: the strength without the upper clamp.
BeatStrengthUnclamped(h, bassEnergy) ==
    Frac(Len(h) * bassEnergy - Sum(h), Sum(h) + Len(h) * Epsilon)

\* Faulty variant: the strength relative to the bare average.
BeatStrengthNoEpsilon(h, bassEnergy) ==
    LET n == Len(h)
        num == n * bassEnergy - Sum(h)
        den == Sum(h)
    IN  IF num >= den THEN One ELSE Frac(num, den)

\* Math.min(1, (bassEnergy - avgEnergy) / (avgEnergy + 0.01)); both terms times n.
\* The denominator is positive for the non-negative energies of the input range.
BeatStrength(h, bassEnergy) ==
    LET n == Len(h)
        num == n * bassEnergy - Sum(h)
        den == Sum(h) + n * Epsilon
    IN  IF num >= den THEN One ELSE Frac(num, den)

\* Faulty variant: the intensity is left as it is.
DecayHalts(v) == v

\* beatIntensity *= decayRate
Decay(v) == IF v.num = 0 THEN v ELSE [v EXCEPT !.decays = @ + 1]

\* Faulty variant: a full list keeps its oldest entries.
PushBeatTimeKeepsOldest(bt, currentTime) ==
    LET pushed == Append(bt, currentTime)
    IN  IF Len(pushed) > MaxBeatTimes THEN bt ELSE pushed

\* beatTimes.push(currentTime); shift() when longer than 16
PushBeatTime(bt, currentTime) ==
    LET pushed == Append(bt, currentTime)
    IN  IF Len(pushed) > MaxBeatTimes THEN Tail(pushed) ELSE pushed

----------------------------------------------------------------------------
(* updateTempoEstimate() *)

Intervals(bt) == [i \in 1 .. (Len(bt) - 1) |-> bt[i + 1] - bt[i]]

\* Faulty variant: intervals up to twice the upper limit count as valid.
ReasonableIntervalWide(interval) ==
    interval > MinInterval /\ interval < 2 * MaxInterval

\* interval > 200 && interval < 2000
ReasonableInterval(interval) == interval > MinInterval /\ interval < MaxInterval

ValidIntervals(bt) == SelectSeq(Intervals(bt), ReasonableInterval)

Ascending(a, b) == a < b

\* intervals.sort(...); intervals[Math.floor(intervals.length / 2)]
MedianInterval(intervals) ==
    SortSeq(intervals, Ascending)[(Len(intervals) \div 2) + 1]

\* Math.round(60000 / medianInterval), for a positive interval
RoundedBPM(medianInterval) ==
    (2 * MsPerMinute + medianInterval) \div (2 * medianInterval)

\* Faulty variant: the tempo not recomputed until a fifth beat.
UpdateTempoEstimateLate(bt, bpm) ==
    IF Len(bt) <= MinTempoBeats THEN bpm
    ELSE IF Len(ValidIntervals(bt)) < MinValidIntervals THEN bpm
    ELSE RoundedBPM(MedianInterval(ValidIntervals(bt)))

\* Faulty variant: the tempo recomputed from any valid interval at all.
UpdateTempoEstimateEager(bt, bpm) ==
    IF ValidIntervals(bt) = <<>> THEN bpm
    ELSE RoundedBPM(MedianInterval(ValidIntervals(bt)))

\* The value of estimatedBPM after updateTempoEstimate() on beat times bt.
UpdateTempoEstimate(bt, bpm) ==
    IF Len(bt) < MinTempoBeats THEN bpm
    ELSE IF Len(ValidIntervals(bt)) < MinValidIntervals THEN bpm
    ELSE RoundedBPM(MedianInterval(ValidIntervals(bt)))

----------------------------------------------------------------------------

Update(bassEnergy, currentTime) ==
    LET h == PushEnergy(energyHistory, bassEnergy)
    IN  /\ energyHistory' = h
        /\ IF WarmingUp(h)
           THEN /\ _isBeat' = FALSE
                /\ UNCHANGED <<lastBeatTime, beatIntensity, beatCount, beatTimes,
                               estimatedBPM, reported>>
           ELSE IF BeatCondition(h, bassEnergy, currentTime, lastBeatTime)
           THEN /\ _isBeat' = TRUE
                /\ lastBeatTime' = currentTime
                /\ beatCount' = beatCount + 1
                /\ beatIntensity' = Decay(BeatStrength(h, bassEnergy))
                /\ beatTimes' = PushBeatTime(beatTimes, currentTime)
                /\ estimatedBPM' = UpdateTempoEstimate(beatTimes', estimatedBPM)
                /\ reported' = Append(reported, currentTime)
           ELSE /\ _isBeat' = FALSE
                /\ beatIntensity' = Decay(beatIntensity)
                /\ UNCHANGED <<lastBeatTime, beatCount, beatTimes, estimatedBPM, reported>>
        /\ lastCall' = [op |-> "update", beats |-> 0, bpm |-> 0]
        /\ UNCHANGED <<config, env>>

\* Faulty variant: reset() forgets to clear lastBeatTime.
ResetKeepsLastBeatTime ==
    /\ energyHistory' = <<>>
    /\ beatTimes' = <<>>
    /\ beatIntensity' = Zero
    /\ _isBeat' = FALSE
    /\ beatCount' = 0
    /\ estimatedBPM' = 0
    /\ reported' = <<>>
    /\ lastCall' = [op |-> "reset", beats |-> beatCount, bpm |-> estimatedBPM]
    /\ UNCHANGED <<config, env, lastBeatTime>>

(* reset() *)
Reset ==
    /\ energyHistory' = <<>>
    /\ beatTimes' = <<>>
    /\ lastBeatTime' = 0
    /\ beatIntensity' = Zero
    /\ _isBeat' = FALSE
    /\ beatCount' = 0
    /\ estimatedBPM' = 0
    /\ reported' = <<>>
    /\ lastCall' = [op |-> "reset", beats |-> beatCount, bpm |-> estimatedBPM]
    /\ UNCHANGED <<config, env>>

----------------------------------------------------------------------------
(* The demo runner of visual-effects-gallery/js/utils/MathUtils.js and the   *)
(* demo base class of visual-effects-gallery/js/core/BaseDemo.js.            *)
(*                                                                           *)
(* An options object is a function from its keys to their values.  A demo    *)
(* instance is the record [cls, options, isRunning, frameCount, pending,     *)
(* listeners]: pending counts its requestAnimationFrame callbacks that the   *)
(* host has queued and not yet run, listeners tells whether its event        *)
(* listeners are attached.  The instances live in demos, in construction     *)
(* order, and currentDemo is an index into demos (NoDemo for null).          *)

(* Bounds of the model *)

MaxDemos == 2
MaxFrameCount == 2
MaxPending == 2

NoDemo == 0
NoCanvas == "null"
EmptyObject == [k \in {} |-> 0]

\* { ...target, ...source }: the keys of both, source's value where it has one.
\* Faulty variant: the target's value wins.
SpreadKeepsTarget(target, source) ==
    [k \in DOMAIN target \cup DOMAIN source |->
        IF k \in DOMAIN target THEN target[k] ELSE source[k]]

Spread(target, source) ==
    [k \in DOMAIN target \cup DOMAIN source |->
        IF k \in DOMAIN source THEN source[k] ELSE target[k]]

\* object[name] = value
SetProperty(object, name, value) ==
    [k \in DOMAIN object \cup {name} |-> IF k = name THEN value ELSE object[k]]

\* getDefaultOptions() of the two demo classes modelled (gravity in hundredths)
GetDefaultOptions(cls) ==
    IF cls = "SimpleParticlesDemo"
    THEN [particleCount |-> 150, speed |-> 1, hue |-> 220]
    ELSE [gravity |-> 8, autoLaunchRate |-> 2, rainbow |-> FALSE]

\* new DemoClass(canvas, options)
NewDemo(cls, options) ==
    [cls |-> cls,
     options |-> Spread(Spread(EmptyObject, GetDefaultOptions(cls)), options),
     isRunning |-> FALSE,
     frameCount |-> 0,
     pending |-> 0,
     listeners |-> TRUE]

\* demo.start(); faulty variant: starting also restarts the frame counter.
DemoStartFromZero(d) ==
    IF d.isRunning THEN d
    ELSE [d EXCEPT !.isRunning = TRUE, !.pending = @ + 1, !.frameCount = 0]

DemoStart(d) ==
    IF d.isRunning THEN d
    ELSE [d EXCEPT !.isRunning = TRUE, !.pending = @ + 1]

\* Faulty variant: a restart does not initialise again.
InitCallsNever(d) == 0

\* The number of init() calls demo.start() makes
InitCalls(d) == IF d.isRunning THEN 0 ELSE 1

\* demo.stop()
DemoStop(d) == [d EXCEPT !.isRunning = FALSE]

\* demo.setOption(name, value)
DemoSetOption(d, name, value) ==
    [d EXCEPT !.options = SetProperty(@, name, value)]

\* demo.destroy(); faulty variant: only the listeners are removed.
DemoDestroyStillRunning(d) == [d EXCEPT !.listeners = FALSE]

DemoDestroy(d) == [DemoStop(d) EXCEPT !.listeners = FALSE]

\* The number of times one animation frame of the host runs update and render
\* of demo d: once per queued callback if the demo is running, else not at all.
\* Faulty variant: the stop flag is not looked at.
FrameRunsIgnoringStop(d) == d.pending

FrameRuns(d) == IF d.isRunning THEN d.pending ELSE 0

\* demo._render(time), for every callback of d the host has queued: each one
\* that finds the demo running counts a frame and queues the next callback.
DemoRender(d) ==
    [d EXCEPT !.frameCount = @ + FrameRuns(d), !.pending = FrameRuns(d)]

NoCall == [op |-> "constructor", args |-> <<>>, returned |-> "undefined",
           inits |-> 0, hooks |-> 0, ran |-> <<>>]

\* new DemoRunner()
DemoRunnerConstructor ==
    /\ registry = EmptyObject
    /\ currentDemo = NoDemo
    /\ canvas = NoCanvas
    /\ currentOptions = EmptyObject
    /\ demos = <<>>
    /\ runnerCall = NoCall

\* runner.setCanvas(c)
SetCanvas(c) ==
    /\ canvas' = c
    /\ runnerCall' = [NoCall EXCEPT !.op = "setCanvas", !.args = <<c>>]
    /\ UNCHANGED <<registry, currentDemo, currentOptions, demos>>

\* runner.register(id, DemoClass)
Register(id, cls) ==
    /\ registry' = SetProperty(registry, id, cls)
    /\ runnerCall' = [NoCall EXCEPT !.op = "register", !.args = <<id, cls>>]
    /\ UNCHANGED <<canvas, currentDemo, currentOptions, demos>>

\* The instances after runner.stop()
Stopped ==
    IF currentDemo # NoDemo
    THEN [demos EXCEPT ![currentDemo] = DemoDestroy(@)]
    ELSE demos

\* runner.load(id, options), as long as fewer than MaxDemos instances exist;
\* faulty variant: the current demo is stopped before the checks.
LoadStopsFirst(id, options) ==
    IF canvas = NoCanvas \/ id \notin DOMAIN registry
    THEN /\ runnerCall' = [NoCall EXCEPT !.op = "load", !.args = <<id, options>>,
                                         !.returned = "false"]
         /\ demos' = Stopped
         /\ currentDemo' = NoDemo
         /\ UNCHANGED <<registry, canvas, currentOptions>>
    ELSE /\ Len(demos) < MaxDemos
         /\ currentOptions' = options
         /\ demos' = Append(Stopped, DemoStart(NewDemo(registry[id], options)))
         /\ currentDemo' = Len(demos) + 1
         /\ runnerCall' = [NoCall EXCEPT !.op = "load", !.args = <<id, options>>,
                                         !.returned = "true", !.inits = 1]
         /\ UNCHANGED <<registry, canvas>>

\* Faulty variant: the canvas is not checked.
LoadWithoutCanvas(id, options) ==
    IF id \notin DOMAIN registry
    THEN /\ runnerCall' = [NoCall EXCEPT !.op = "load", !.args = <<id, options>>,
                                         !.returned = "false"]
         /\ UNCHANGED <<registry, canvas, currentDemo, currentOptions, demos>>
    ELSE /\ Len(demos) < MaxDemos
         /\ currentOptions' = options
         /\ demos' = Append(Stopped, DemoStart(NewDemo(registry[id], options)))
         /\ currentDemo' = Len(demos) + 1
         /\ runnerCall' = [NoCall EXCEPT !.op = "load", !.args = <<id, options>>,
                                         !.returned = "true", !.inits = 1]
         /\ UNCHANGED <<registry, canvas>>

Load(id, options) ==
    IF canvas = NoCanvas \/ id \notin DOMAIN registry
    THEN /\ runnerCall' = [NoCall EXCEPT !.op = "load", !.args = <<id, options>>,
                                         !.returned = "false"]
         /\ UNCHANGED <<registry, canvas, currentDemo, currentOptions, demos>>
    ELSE /\ Len(demos) < MaxDemos
         /\ currentOptions' = options
         /\ demos' = Append(Stopped, DemoStart(NewDemo(registry[id], options)))
         /\ currentDemo' = Len(demos) + 1
         /\ runnerCall' = [NoCall EXCEPT !.op = "load", !.args = <<id, options>>,
                                         !.returned = "true", !.inits = 1]
         /\ UNCHANGED <<registry, canvas>>

\* runner.stop()
Stop ==
    /\ demos' = Stopped
    /\ currentDemo' = NoDemo
    /\ runnerCall' = [NoCall EXCEPT !.op = "stop"]
    /\ UNCHANGED <<registry, canvas, currentOptions>>

\* runner.pause()
Pause ==
    /\ demos' = IF currentDemo # NoDemo
                THEN [demos EXCEPT ![currentDemo] = DemoStop(@)]
                ELSE demos
    /\ runnerCall' = [NoCall EXCEPT !.op = "pause"]
    /\ UNCHANGED <<registry, canvas, currentDemo, currentOptions>>

\* runner.resume(), as long as the demo has fewer than MaxPending callbacks queued
Resume ==
    /\ IF currentDemo # NoDemo /\ ~demos[currentDemo].isRunning
       THEN /\ demos[currentDemo].pending < MaxPending
            /\ demos' = [demos EXCEPT ![currentDemo] = DemoStart(@)]
            /\ runnerCall' = [NoCall EXCEPT !.op = "resume",
                                  !.inits = InitCalls(demos[currentDemo])]
       ELSE /\ demos' = demos
            /\ runnerCall' = [NoCall EXCEPT !.op = "resume"]
    /\ UNCHANGED <<registry, canvas, currentDemo, currentOptions>>

\* runner.setOption(name, value); faulty variant: the options are stored even
\* when no demo is active.
SetOptionAlwaysStores(name, value) ==
    /\ IF currentDemo # NoDemo
       THEN /\ demos' = [demos EXCEPT ![currentDemo] = DemoSetOption(@, name, value)]
            /\ runnerCall' = [NoCall EXCEPT !.op = "setOption",
                                  !.args = <<name, value>>, !.hooks = 1]
       ELSE /\ demos' = demos
            /\ runnerCall' = [NoCall EXCEPT !.op = "setOption",
                                  !.args = <<name, value>>]
    /\ currentOptions' = SetProperty(currentOptions, name, value)
    /\ UNCHANGED <<registry, canvas, currentDemo>>

SetOption(name, value) ==
    /\ IF currentDemo # NoDemo
       THEN /\ demos' = [demos EXCEPT ![currentDemo] = DemoSetOption(@, name, value)]
            /\ currentOptions' = SetProperty(currentOptions, name, value)
            /\ runnerCall' = [NoCall EXCEPT !.op = "setOption",
                                  !.args = <<name, value>>, !.hooks = 1]
       ELSE /\ UNCHANGED <<demos, currentOptions>>
            /\ runnerCall' = [NoCall EXCEPT !.op = "setOption",
                                  !.args = <<name, value>>]
    /\ UNCHANGED <<registry, canvas, currentDemo>>

\* One animation frame of the host: every queued callback of every instance
\* runs, as long as no frame counter passes MaxFrameCount.
AnimationFrame ==
    /\ \E i \in 1 .. Len(demos) : demos[i].pending > 0
    /\ \A i \in 1 .. Len(demos) :
            demos[i].frameCount + FrameRuns(demos[i]) <= MaxFrameCount
    /\ demos' = [i \in 1 .. Len(demos) |-> DemoRender(demos[i])]
    /\ runnerCall' = [NoCall EXCEPT !.op = "frame",
                          !.ran = [i \in 1 .. Len(demos) |-> FrameRuns(demos[i])]]
    /\ UNCHANGED <<registry, canvas, currentDemo, currentOptions>>

----------------------------------------------------------------------------
(* The circle-packing demo of demos/03-generative/circle-packing.js.  A      *)
(* circle is modelled by its growing flag; positions and radii are not, so   *)
(* whether a random position is free and whether a grown circle touches an   *)
(* edge or another circle are choices of the environment.                    *)

MaxAttempts == 500

NoGravityCall == [op |-> "none", clicks |-> 0]

\* No circle-packing demo and no gravity demo has been constructed.
NoSketches ==
    /\ circles = <<>>
    /\ attempts = 0
    /\ complete = FALSE
    /\ packingOptions = EmptyObject
    /\ bodies = <<>>
    /\ gravityOptions = EmptyObject
    /\ gravityCall = NoGravityCall

\* init(), and onClick(x, y), which restarts the packing
PackingInit ==
    /\ circles' = <<>>
    /\ attempts' = 0
    /\ complete' = FALSE
    /\ UNCHANGED packingOptions

\* tryAddCircle() on the packing p = [circles, attempts]: a position is free
\* for certain when there is no circle yet, and else when the environment says
\* so.
TryAddCircle(p, free) ==
    IF p.circles = <<>> \/ free
    THEN [circles |-> Append(p.circles, TRUE), attempts |-> 0]
    ELSE [p EXCEPT !.attempts = @ + 1]

\* tryAddCircle() called once for each element of outcomes
RECURSIVE TryAddCircles(_, _)
TryAddCircles(p, outcomes) ==
    IF outcomes = <<>> THEN p
    ELSE TryAddCircles(TryAddCircle(p, Head(outcomes)), Tail(outcomes))

\* The first part of update(): a try for every element of outcomes when there
\* is room before the first one.
AddNewCircles(p, outcomes) ==
    IF Len(p.circles) < packingOptions.maxCircles /\ p.attempts < MaxAttempts
    THEN TryAddCircles(p, outcomes)
    ELSE p

\* update(deltaTime): outcomes tells for each try whether its position is
\* free, stops is the set of growing circles that touch something after
\* growing.
PackingUpdate(outcomes, stops) ==
    IF complete
    THEN UNCHANGED packing
    ELSE LET p == AddNewCircles([circles |-> circles, attempts |-> attempts], outcomes)
         IN  /\ attempts' = p.attempts
             /\ complete' = (p.attempts >= MaxAttempts
                               /\ \A i \in 1 .. Len(p.circles) : ~p.circles[i])
             /\ circles' = [i \in 1 .. Len(p.circles) |->
                                p.circles[i] /\ i \notin stops]
             /\ UNCHANGED packingOptions

----------------------------------------------------------------------------
(* The n-body gravity demo (GravitySimDemo).  A body is modelled by its mass  *)
(* and by a mark telling the central body from the others; positions and     *)
(* velocities are not modelled, so which bodies collide in a frame is a       *)
(* choice of the environment.  Masses are integers.                           *)

CentralMass == 500
OrbitingBodies == 5
MaxBodies == 30

(* Bound of the model *)

MaxClicks == 2

Body(mass) == [central |-> FALSE, mass |-> mass]

\* createInitialSystem(), masses giving the random masses of the orbiting bodies
CreateInitialSystem(masses) ==
    <<[central |-> TRUE, mass |-> CentralMass]>>
        \o [i \in 1 .. OrbitingBodies |-> Body(masses[i])]

\* bodies.splice(i, 1), for the 1-based index i
Splice(b, i) == SubSeq(b, 1, i - 1) \o SubSeq(b, i + 1, Len(b))

\* The 1-based index of the smallest non-central body: the scan starts at the
\* second body and moves on only to a strictly smaller mass.
SmallestIndex(b) ==
    CHOOSE k \in 2 .. Len(b) :
        /\ \A i \in 2 .. Len(b) : b[k].mass <= b[i].mass
        /\ \A i \in 2 .. (k - 1) : b[i].mass > b[k].mass

\* init()
GravityInit(masses) ==
    /\ bodies' = CreateInitialSystem(masses)
    /\ gravityCall' = [gravityCall EXCEPT !.op = "init"]
    /\ UNCHANGED gravityOptions

\* onClick(x, y), mass being the random mass of the new body; at most MaxClicks
\* clicks are made.
GravityClick(mass) ==
    /\ gravityCall.clicks < MaxClicks
    /\ LET pushed == Append(bodies, Body(mass))
       IN  bodies' = IF Len(pushed) > MaxBodies
                     THEN Splice(pushed, SmallestIndex(pushed))
                     ELSE pushed
    /\ gravityCall' = [op |-> "onClick", clicks |-> gravityCall.clicks + 1]
    /\ UNCHANGED gravityOptions

\* Body i merges into body j.  Faulty variant: the lower-index body is the one
\* removed.
MergeIntoHigher(b, i, j) ==
    Splice([b EXCEPT ![i].mass = b[i].mass + b[j].mass], j)

MergeInto(b, i, j) ==
    Splice([b EXCEPT ![j].mass = b[i].mass + b[j].mass], i)

\* The collision loop of update() from body i downwards: hits[i] is the first
\* body below i that the scan from i - 1 downwards finds touching it, 0 when
\* there is none.
RECURSIVE MergeCollisions(_, _, _)
MergeCollisions(b, i, hits) ==
    IF i < 2 THEN b
    ELSE IF hits[i] # 0
         THEN MergeCollisions(MergeInto(b, i, hits[i]), i - 1, hits)
         ELSE MergeCollisions(b, i - 1, hits)

\* update(deltaTime)
GravityUpdate(hits) ==
    /\ bodies' = IF gravityOptions.merge
                  THEN MergeCollisions(bodies, Len(bodies), hits)
                  ELSE bodies
    /\ gravityCall' = [gravityCall EXCEPT !.op = "update"]
    /\ UNCHANGED gravityOptions

----------------------------------------------------------------------------
(* The environment: construction options, signal levels and timestamps. *)

NoOptions == [sensitivity |-> <<>>, decayRate |-> <<>>, cooldownMs |-> <<>>,
              historyLength |-> <<>>]

\* The options explored: the defaults and the Visualizer's settings, each on the
\* shortest window that can leave warm-up, and a window too short to leave it.
OptionSets ==
    { [NoOptions EXCEPT !.historyLength = <<10>>],
      [sensitivity |-> <<13>>, decayRate |-> <<82>>, cooldownMs |-> <<120>>,
       historyLength |-> <<10>>],
      [NoOptions EXCEPT !.historyLength = <<9>>] }

\* A signal source emits two energy levels (hundredths).
LevelSets == { {0, 100}, {60, 100} }

\* Timestamps around the cooldown: at and just after it, measured from time 0
\* and from the first possible beat, then two later ones.
CooldownTimes(cooldown) ==
    {cooldown, cooldown + 1, 2 * cooldown + 1, 2 * cooldown + 2, 600, 1500}

\* Timestamps for tempo estimation under the default cooldown: intervals at, inside
\* and outside the 200..2000 ms range, enough of them for an even and an odd count.
TempoTimes == {181, 600, 800, 1100, 1500, 1900}

NoTrain == [frameMs |-> 0, start |-> 0, offset |-> 0, sent |-> 0]

Init ==
    /\ \E options \in OptionSets : Constructor(options)
    /\ levels \in LevelSets
    /\ times = CooldownTimes(cooldownMs)
    /\ train = NoTrain
    /\ reported = <<>>
    /\ lastCall = [op |-> "constructor", beats |-> 0, bpm |-> 0]
    /\ fed = <<>>
    /\ DemoRunnerConstructor
    /\ NoSketches

InitTempo ==
    /\ Constructor([NoOptions EXCEPT !.historyLength = <<10>>])
    /\ levels = {0, 100}
    /\ times = TempoTimes
    /\ train = NoTrain
    /\ reported = <<>>
    /\ lastCall = [op |-> "constructor", beats |-> 0, bpm |-> 0]
    /\ fed = <<>>
    /\ DemoRunnerConstructor
    /\ NoSketches

\* The host calls update with any offered energy and timestamp, as long as the
\* intensity has decayed at most MaxDecays times since the last beat.
Next ==
    \/ /\ \E bassEnergy \in levels, currentTime \in times :
            Update(bassEnergy, currentTime)
       /\ beatIntensity'.decays <= MaxDecays
       /\ UNCHANGED <<train, fed, runner, sketches>>
    \/ Reset /\ UNCHANGED <<train, fed, runner, sketches>>

Spec == Init /\ [][Next]_vars

SpecTempo == InitTempo /\ [][Next]_vars

\* Timestamps at the ends of the valid interval range, under the default
\* cooldown: beats 201 ms apart, beats 1999 ms apart, and beats 201, 2401 and
\* 3998 ms apart.
RangeTimeSets ==
    { {181, 382, 583, 784}, {784, 2783, 4782, 6781}, {181, 382, 2783, 6781} }

InitRange ==
    /\ Constructor([NoOptions EXCEPT !.historyLength = <<10>>])
    /\ levels = {0, 100}
    /\ times \in RangeTimeSets
    /\ train = NoTrain
    /\ reported = <<>>
    /\ lastCall = [op |-> "constructor", beats |-> 0, bpm |-> 0]
    /\ fed = <<>>
    /\ DemoRunnerConstructor
    /\ NoSketches

SpecRange == InitRange /\ [][Next]_vars

\* Every combination of the four options absent, zero and set.
ConfigOptionSets ==
    [sensitivity : {<<>>, <<0>>, <<13>>}, decayRate : {<<>>, <<0>>, <<82>>},
     cooldownMs : {<<>>, <<0>>, <<120>>}, historyLength : {<<>>, <<0>>, <<12>>}]

\* A detector built from any of them is fed a loud sample now and then.
InitConfig ==
    /\ \E options \in ConfigOptionSets : Constructor(options)
    /\ levels = {100}
    /\ times = {1000}
    /\ train = NoTrain
    /\ reported = <<>>
    /\ lastCall = [op |-> "constructor", beats |-> 0, bpm |-> 0]
    /\ fed = <<>>
    /\ DemoRunnerConstructor
    /\ NoSketches

SpecConfig == InitConfig /\ [][Next]_vars

----------------------------------------------------------------------------
(* A noise-free periodic impulse train: one frame every frameMs from timestamp *)
(* start, energy 1 on the frames a whole number of periods after frame offset  *)
(* and 0 on the others.                                                        *)

\* Frame spacings, all dividing the period: from 50 frames a second down to two
\* frames per period.
FrameSpacings == {20, 25, 30, 40, 50, 60, 75, 100, 120, 150, 200, 300}

StartTimes == {0, 5000}

\* The default options and the Visualizer's, both on the default 30-sample window.
TrainOptionSets ==
    { NoOptions,
      [NoOptions EXCEPT !.sensitivity = <<13>>, !.decayRate = <<82>>,
                        !.cooldownMs = <<120>>] }

FramesPerPeriod(tr) == 600 \div tr.frameMs

\* Frame number i (from 0) of train tr
FrameTime(tr, i) == tr.start + i * tr.frameMs
IsImpulseFrame(tr, i) == i >= tr.offset /\ (i - tr.offset) % FramesPerPeriod(tr) = 0
FrameEnergy(tr, i) == IF IsImpulseFrame(tr, i) THEN 100 ELSE 0

InitImpulse ==
    /\ \E options \in TrainOptionSets : Constructor(options)
    /\ levels = {0, 100}
    /\ times = {}
    /\ \E frameMs \in FrameSpacings, start \in StartTimes :
        \E offset \in 0 .. (600 \div frameMs - 1) :
            train = [frameMs |-> frameMs, start |-> start, offset |-> offset,
                     sent |-> 0]
    /\ reported = <<>>
    /\ lastCall = [op |-> "constructor", beats |-> 0, bpm |-> 0]
    /\ fed = <<>>
    /\ DemoRunnerConstructor
    /\ NoSketches

\* The next frame of the train is passed to update.
FeedFrame ==
    /\ FrameTime(train, train.sent) <= train.start + MaxTrainMs
    /\ Update(FrameEnergy(train, train.sent), FrameTime(train, train.sent))
    /\ train' = [train EXCEPT !.sent = @ + 1]

NextImpulse == FeedFrame /\ UNCHANGED <<fed, runner, sketches>>

SpecImpulse == InitImpulse /\ [][NextImpulse]_vars

----------------------------------------------------------------------------
(* A single spike: one frame every 16 ms from timestamp start, energy 1 on   *)
(* the eleventh sample and 0 on all the others.                               *)

\* First timestamps: the spike (160 ms later) falls before, just before, just
\* after and long after the default cooldown.
SpikeStartTimes == {0, 16, 21, 1000}

\* The default options on the default window and on the shortest one that
\* leaves warm-up, and the Visualizer's options.
SpikeOptionSets == TrainOptionSets \cup { [NoOptions EXCEPT !.historyLength = <<10>>] }

SpikeEnergy(tr, i) == IF i = tr.offset THEN 100 ELSE 0

InitSpike ==
    /\ \E options \in SpikeOptionSets : Constructor(options)
    /\ levels = {0, 100}
    /\ times = {}
    /\ \E start \in SpikeStartTimes :
            train = [frameMs |-> 16, start |-> start, offset |-> 10, sent |-> 0]
    /\ reported = <<>>
    /\ lastCall = [op |-> "constructor", beats |-> 0, bpm |-> 0]
    /\ fed = <<>>
    /\ DemoRunnerConstructor
    /\ NoSketches

\* The next sample of the scenario is passed to update.
FeedSpikeFrame ==
    /\ train.sent < MaxSpikeFrames
    /\ Update(SpikeEnergy(train, train.sent), FrameTime(train, train.sent))
    /\ train' = [train EXCEPT !.sent = @ + 1]

NextSpike == FeedSpikeFrame /\ UNCHANGED <<fed, runner, sketches>>

SpecSpike == InitSpike /\ [][NextSpike]_vars

----------------------------------------------------------------------------
(* A long impulse train, every sample of which is recorded in fed: long       *)
(* enough for more beats than the beat-time list holds.                       *)

LongFrameSpacings == {100, 150}

\* The default options on the default window, on the shortest window that
\* leaves warm-up and on a window of three samples, and the Visualizer's options.
LongOptionSets ==
    TrainOptionSets \cup { [NoOptions EXCEPT !.historyLength = <<10>>],
                           [NoOptions EXCEPT !.historyLength = <<3>>] }

InitLong ==
    /\ \E options \in LongOptionSets : Constructor(options)
    /\ levels = {0, 100}
    /\ times = {}
    /\ \E frameMs \in LongFrameSpacings, start \in StartTimes :
        \E offset \in 0 .. (600 \div frameMs - 1) :
            train = [frameMs |-> frameMs, start |-> start, offset |-> offset,
                     sent |-> 0]
    /\ reported = <<>>
    /\ lastCall = [op |-> "constructor", beats |-> 0, bpm |-> 0]
    /\ fed = <<>>
    /\ DemoRunnerConstructor
    /\ NoSketches

\* The next frame of the train is passed to update and recorded.
FeedRecordedFrame ==
    /\ FrameTime(train, train.sent) <= train.start + MaxLongTrainMs
    /\ Update(FrameEnergy(train, train.sent), FrameTime(train, train.sent))
    /\ train' = [train EXCEPT !.sent = @ + 1]
    /\ fed' = Append(fed, FrameEnergy(train, train.sent))

NextLong == FeedRecordedFrame /\ UNCHANGED <<runner, sketches>>

SpecLong == InitLong /\ [][NextLong]_vars

----------------------------------------------------------------------------
(* The gallery page driving the demo runner: any call in any order, with the *)
(* host's animation frames in between.                                       *)

Canvases == {NoCanvas, "demoCanvas"}

\* Two of the registrations of gallery.js
Registrations ==
    { <<"simple-particles", "SimpleParticlesDemo">>, <<"fireworks", "FireworksDemo">> }

\* The ids asked for: the registered ones and one that never is
DemoIds == {"simple-particles", "fireworks", "missing"}

\* Options passed to load: none, and one default key of SimpleParticlesDemo
\* together with a key no class has a default for
LoadOptions == { EmptyObject, [hue |-> 30, glow |-> 1] }

\* The option change made by a control
OptionChanges == { <<"hue", 60>> }

detector == <<config, state, env, train, reported, lastCall, fed>>

InitRunner ==
    /\ Constructor(NoOptions)
    /\ levels = {}
    /\ times = {}
    /\ train = NoTrain
    /\ reported = <<>>
    /\ lastCall = [op |-> "constructor", beats |-> 0, bpm |-> 0]
    /\ fed = <<>>
    /\ DemoRunnerConstructor
    /\ NoSketches

NextRunner ==
    \/ (\E c \in Canvases : SetCanvas(c)) /\ UNCHANGED <<detector, sketches>>
    \/ (\E r \in Registrations : Register(r[1], r[2])) /\ UNCHANGED <<detector, sketches>>
    \/ (\E id \in DemoIds, options \in LoadOptions : Load(id, options))
            /\ UNCHANGED <<detector, sketches>>
    \/ Stop /\ UNCHANGED <<detector, sketches>>
    \/ Pause /\ UNCHANGED <<detector, sketches>>
    \/ Resume /\ UNCHANGED <<detector, sketches>>
    \/ (\E change \in OptionChanges : SetOption(change[1], change[2]))
            /\ UNCHANGED <<detector, sketches>>
    \/ AnimationFrame /\ UNCHANGED <<detector, sketches>>

SpecRunner == InitRunner /\ [][NextRunner]_vars

----------------------------------------------------------------------------
(* The circle-packing demo running on its own. *)

\* The options explored: room for one or two circles, one or three tries a frame
PackingOptionSets == [maxCircles : {1, 2}, newPerFrame : {1, 3}]

InitPacking ==
    /\ Constructor(NoOptions)
    /\ levels = {}
    /\ times = {}
    /\ train = NoTrain
    /\ reported = <<>>
    /\ lastCall = [op |-> "constructor", beats |-> 0, bpm |-> 0]
    /\ fed = <<>>
    /\ DemoRunnerConstructor
    /\ circles = <<>>
    /\ attempts = 0
    /\ complete = FALSE
    /\ packingOptions \in PackingOptionSets
    /\ bodies = <<>>
    /\ gravityOptions = EmptyObject
    /\ gravityCall = NoGravityCall

NextPacking ==
    \/ /\ \E outcomes \in [1 .. packingOptions.newPerFrame -> BOOLEAN] :
            \E stops \in SUBSET (1 .. (Len(circles) + packingOptions.newPerFrame)) :
                PackingUpdate(outcomes, stops)
       /\ UNCHANGED <<detector, runner, gravity>>
    \/ PackingInit /\ UNCHANGED <<detector, runner, gravity>>

SpecPacking == InitPacking /\ [][NextPacking]_vars

----------------------------------------------------------------------------
(* The gravity demo running on its own. *)

\* Random masses of the five orbiting bodies, and of a body added by a click
OrbitMassSets == { <<10, 10, 10, 10, 10>>, <<20, 10, 30, 15, 25>> }
ClickMasses == {10, 50}

\* A system that 23 clicks have grown to 29 bodies, no two having merged.
CrowdedSystem ==
    CreateInitialSystem(<<20, 10, 30, 15, 25>>)
        \o [i \in 1 .. 23 |-> Body(10 + ((i * 7) % 41))]

\* The ways the bodies 1 .. n can collide in one frame: for each body a lower
\* one, or 0 for none.  Collisions matter only when the merge option is on.
RECURSIVE Collisions(_)
Collisions(n) ==
    IF n = 0 THEN {<<>>}
    ELSE {Append(hits, j) : hits \in Collisions(n - 1), j \in 0 .. (n - 1)}

\* The demo starts from its initial system with merging on or off, or is
\* picked up crowded with merging off.
InitGravity ==
    /\ Constructor(NoOptions)
    /\ levels = {}
    /\ times = {}
    /\ train = NoTrain
    /\ reported = <<>>
    /\ lastCall = [op |-> "constructor", beats |-> 0, bpm |-> 0]
    /\ fed = <<>>
    /\ DemoRunnerConstructor
    /\ circles = <<>>
    /\ attempts = 0
    /\ complete = FALSE
    /\ packingOptions = EmptyObject
    /\ \/ /\ \E masses \in OrbitMassSets : bodies = CreateInitialSystem(masses)
          /\ gravityOptions \in [merge : BOOLEAN]
       \/ /\ bodies = CrowdedSystem
          /\ gravityOptions = [merge |-> FALSE]
    /\ gravityCall = [op |-> "init", clicks |-> 0]

NextGravity ==
    \/ (\E masses \in OrbitMassSets : GravityInit(masses))
            /\ UNCHANGED <<detector, runner, packing>>
    \/ (\E mass \in ClickMasses : GravityClick(mass))
            /\ UNCHANGED <<detector, runner, packing>>
    \/ (\E hits \in (IF gravityOptions.merge THEN Collisions(Len(bodies))
                                              ELSE {<<>>}) :
            GravityUpdate(hits))
            /\ UNCHANGED <<detector, runner, packing>>

SpecGravity == InitGravity /\ [][NextGravity]_vars

----------------------------------------------------------------------------
(* Values of beatIntensity, compared exactly. *)

\* num * decayRate^k <= den * 100^k, multiplying out only as far as needed.
RECURSIVE ScaledLeq(_, _, _)
ScaledLeq(num, den, k) ==
    IF k = 0 THEN num <= den
    ELSE IF decayRate >= 0 /\ decayRate <= 100 /\ num >= 0 /\ num <= den THEN TRUE
    ELSE ScaledLeq(num * decayRate, den * 100, k - 1)

\* 0 <= v
NonNegative(v) ==
    \/ v.num = 0
    \/ decayRate = 0 /\ v.decays > 0
    \/ v.num > 0 /\ (decayRate > 0 \/ v.decays % 2 = 0)
    \/ v.num < 0 /\ decayRate < 0 /\ v.decays % 2 = 1

\* v <= 1
AtMostOne(v) ==
    IF decayRate < 0 /\ v.decays % 2 = 1
    THEN ScaledLeq(v.num * decayRate, v.den * 100, v.decays - 1)
    ELSE ScaledLeq(v.num, v.den, v.decays)

----------------------------------------------------------------------------
(* Claims *)

\* The population variance of window h times n^2, from the deviations from the
\* mean: sum over the samples x of (n*x - S)^2 is n^3 times the variance.
RECURSIVE SumSqDev(_, _, _)
SumSqDev(h, n, S) ==
    IF h = <<>> THEN 0
    ELSE (n * Head(h) - S) * (n * Head(h) - S) + SumSqDev(Tail(h), n, S)

\* energy > mean + sensitivity * stddev, on window h (mean = S/n,
\* stddev = sqrt(SumSqDev/n^3), so n*stddev = sqrt(SumSqDev/n)).
ExceedsMeanPlusStdDev(h, energy) ==
    LET n == Len(h)
        S == Sum(h)
    IN  GtScaledRoot(10 * (n * energy - S), sensitivity, SumSqDev(h, n, S) \div n)

\* energy > mean * sensitivity, on window h
ExceedsScaledMean(h, energy) == 10 * energy * Len(h) > sensitivity * Sum(h)

\* C1: once the window holds at least 10 samples, an update(energy, t) leaves
\* isBeat() true if and only if energy > mean + sensitivity * stddev, energy >
\* mean * sensitivity and t - (timestamp of the last reported beat) > cooldownMs,
\* with mean and population standard deviation taken over the window after the
\* push of the current sample.  Stated per step: the step is no update(energy, t)
\* for any t on which isBeat() after the step differs from the three conditions.
C1_BeatIffThreeConditions ==
    [][(lastCall'.op = "update" /\ Len(energyHistory') >= 10) =>
        LET energy == energyHistory'[Len(energyHistory')]
        IN  IF /\ ExceedsMeanPlusStdDev(energyHistory', energy)
               /\ ExceedsScaledMean(energyHistory', energy)
            THEN \A t \in times :
                    (_isBeat' # (t - lastBeatTime > cooldownMs)) => ~Update(energy, t)
            ELSE ~_isBeat']_vars

\* A second beat has been reported on a two-level signal above silence.
C1_Witness == _isBeat /\ beatCount >= 2 /\ levels = {60, 100}

\* C2: getBeatIntensity() is in [0,1] in every reachable state.
C2_IntensityInUnitInterval == NonNegative(beatIntensity) /\ AtMostOne(beatIntensity)

\* A beat whose strength was clamped to 1 has just been reported and decayed once.
C2_Witness ==
    _isBeat /\ beatIntensity = [num |-> 1, den |-> 1, decays |-> 1]

\* C3: any two update calls that reported a beat have timestamps more than
\* cooldownMs apart.
C3_BeatsApartByCooldown ==
    \A i, j \in 1 .. Len(reported) :
        i < j => reported[j] - reported[i] > cooldownMs

\* Two beats were reported as close together as the cooldown allows.
C3_Witness ==
    /\ Len(reported) >= 2
    /\ reported[2] - reported[1] = cooldownMs + 1

\* C4: while the window holds fewer than 10 samples, isBeat() is false, no beat
\* has been counted and the intensity is still zero.
C4_ColdStartNeverBeats ==
    Len(energyHistory) < 10 =>
        ~_isBeat /\ beatCount = 0 /\ reported = <<>> /\ beatIntensity = Zero

\* The ninth sample is a full-scale spike after eight silent ones, with a
\* timestamp past the cooldown on offer, and no beat is reported.
C4_Witness ==
    /\ energyHistory = <<0, 0, 0, 0, 0, 0, 0, 0, 100>>
    /\ lastCall.op = "update"
    /\ historyLength >= 10
    /\ ~_isBeat

AllEqual(h) == \A i \in 1 .. Len(h) : h[i] = h[Len(h)]

\* C5: an update whose window consists solely of samples equal to the current
\* energy leaves isBeat() false.
C5_ConstantEnergyNeverBeats ==
    (lastCall.op = "update" /\ AllEqual(energyHistory)) => ~_isBeat

\* A window past warm-up that holds one non-zero value only.
C5_Witness ==
    /\ lastCall.op = "update"
    /\ Len(energyHistory) >= 10
    /\ AllEqual(energyHistory)
    /\ energyHistory[1] = 100

\* C6: after reset() every field update reads or the getters return has the value
\* the constructor gives it and the configuration is kept, so the detector behaves
\* from then on as a fresh one with the same configuration.
C6_ResetIsFresh ==
    [][Reset =>
        /\ [energyHistory |-> energyHistory', lastBeatTime |-> lastBeatTime',
            beatIntensity |-> beatIntensity', _isBeat |-> _isBeat',
            beatCount |-> beatCount', beatTimes |-> beatTimes',
            estimatedBPM |-> estimatedBPM'] = FreshState
        /\ config' = config]_vars

\* reset() was called on a detector that had reported beats and held a tempo.
C6_Witness == lastCall.op = "reset" /\ lastCall.beats >= 4 /\ lastCall.bpm > 0

\* C7: an update changes getBPM() only if it reports a beat and the beat-time
\* history then holds at least 4 timestamps with at least 3 valid intervals.
C7_BPMChangesOnlyOnQualifiedBeat ==
    [][(lastCall'.op = "update" /\ estimatedBPM' # estimatedBPM) =>
        /\ _isBeat'
        /\ Len(beatTimes') >= 4
        /\ Len(ValidIntervals(beatTimes')) >= 3]_vars

\* A beat with 4 recorded timestamps but fewer than 3 valid intervals has left
\* the tempo untouched.
C7_Witness ==
    /\ _isBeat
    /\ Len(beatTimes) >= 4
    /\ Len(ValidIntervals(beatTimes)) < 3
    /\ estimatedBPM = 0

\* The intervals the claims speak of: 200 and 2000 ms included.
InClosedRange(interval) == interval >= 200 /\ interval <= 2000

\* The median of a non-empty sequence, doubled: the middle element twice, or the
\* sum of the two middle elements.
TwiceMedian(intervals) ==
    LET sorted == SortSeq(intervals, Ascending)
        n == Len(sorted)
    IN  sorted[(n + 1) \div 2] + sorted[(n \div 2) + 1]

\* 60000 divided by half of twice, rounded to the nearest integer
BPMOfTwiceMedian(twice) == (4 * 60000 + twice) \div (2 * twice)

\* C8: when the tempo estimate is recomputed, getBPM() is 60000 divided by the
\* median of the valid intervals, rounded, whether their number is odd or even.
C8_BPMFromMedian ==
    (_isBeat /\ Len(beatTimes) >= 4 /\ Len(ValidIntervals(beatTimes)) >= 3) =>
        estimatedBPM = BPMOfTwiceMedian(TwiceMedian(ValidIntervals(beatTimes)))

\* C9: an inter-beat interval is kept for the estimate exactly when it lies in
\* [200, 2000], endpoints included.
C9_EndpointsCountAsValid ==
    \A i \in 1 .. Len(Intervals(beatTimes)) :
        ReasonableInterval(Intervals(beatTimes)[i])
            <=> InClosedRange(Intervals(beatTimes)[i])

\* The frame last fed was an impulse and the window had left warm-up.
ImpulseAfterWarmUp ==
    /\ train.sent > 0
    /\ IsImpulseFrame(train, train.sent - 1)
    /\ Len(energyHistory) >= 10

\* C10 as stated: on a 600 ms impulse train fed frame by frame every impulse
\* after warm-up is reported as a beat, and from the fourth beat on getBPM() is 100.
C10_EveryImpulseIsABeat ==
    /\ ImpulseAfterWarmUp => _isBeat
    /\ (train.sent > 0 /\ beatCount >= 4) => estimatedBPM = 100

\* C10 amended: with the default or the Visualizer's options and at least 4
\* frames per impulse period, every impulse after warm-up whose timestamp is
\* more than cooldownMs is reported as a beat; from the fourth beat on
\* getBPM() is 100.
C10_ImpulsesPastCooldownAreBeats ==
    /\ (/\ ImpulseAfterWarmUp
        /\ FramesPerPeriod(train) >= 4
        /\ FrameTime(train, train.sent - 1) > cooldownMs) => _isBeat
    /\ (train.sent > 0 /\ beatCount >= 4) => estimatedBPM = 100

\* A fifth impulse in a row has been reported as a beat at 50 frames a second.
C10_Witness ==
    /\ ImpulseAfterWarmUp
    /\ train.frameMs = 20
    /\ _isBeat
    /\ beatCount >= 5
    /\ estimatedBPM = 100

\* after = before * decayRate, as values
IsDecayOf(after, before) ==
    IF before.num = 0 \/ decayRate = 0 THEN after.num = 0 \/ decayRate = 0
    ELSE /\ after.num * before.den = before.num * after.den
         /\ after.decays = before.decays + 1

\* The spike scenario's sample number (from 1) that the last update received
SampleNumber == train.sent

\* C11 (as stated): in the spike scenario isBeat() is true after the eleventh
\* sample and after no other, and after each later sample the intensity is the
\* previous intensity times decayRate.
C11_SpikeIsTheOnlyBeat ==
    [][ /\ (_isBeat' <=> SampleNumber' = 11)
        /\ (SampleNumber' > 11 => IsDecayOf(beatIntensity', beatIntensity)) ]_vars

\* C11 (amended): the same, for a spike whose timestamp is greater than
\* cooldownMs; a spike at or before cooldownMs is no beat either.
C11_SpikePastCooldownIsTheOnlyBeat ==
    [][ /\ (_isBeat' <=> (SampleNumber' = 11
                            /\ FrameTime(train, train.offset) > cooldownMs))
        /\ (SampleNumber' > 11 => IsDecayOf(beatIntensity', beatIntensity)) ]_vars

C11_Witness ==
    /\ train.frameMs = 16
    /\ cooldownMs = DefaultCooldownMs
    /\ SampleNumber >= 14
    /\ beatCount = 1
    /\ reported = <<FrameTime(train, 10)>>
    /\ beatIntensity.num > 0
    /\ beatIntensity.decays >= 4

\* v = decayRate * clamp((energy - mean) / (mean + 0.01), 0, 1), mean taken over
\* window h; the ratio is (n*energy - S) / (S + n) in hundredths.
IsDecayedClampedRatio(v, h, energy) ==
    LET num == Len(h) * energy - Sum(h)
        den == Sum(h) + Len(h)
    IN  IF num <= 0 THEN v.num = 0
        ELSE /\ v.decays = 1
             /\ IF num >= den THEN v.num = v.den ELSE v.num * den = num * v.den

\* C12: every update leaves beatIntensity at decayRate times the clamped
\* relative excess of the sample over the window mean when it reports a beat,
\* and at decayRate times the previous intensity when it does not, which is
\* then no greater than the previous intensity.
C12_IntensityDecaysOnEveryUpdate ==
    [][ lastCall'.op = "update" =>
            IF _isBeat'
            THEN IsDecayedClampedRatio(beatIntensity', energyHistory',
                                       energyHistory'[Len(energyHistory')])
            ELSE /\ IsDecayOf(beatIntensity', beatIntensity)
                 /\ decayRate > 0 /\ decayRate <= 100
                 /\ NonNegative(beatIntensity) ]_vars

C12_Witness ==
    /\ lastCall.op = "update"
    /\ ~_isBeat
    /\ beatIntensity.num > 0
    /\ beatIntensity.num < beatIntensity.den
    /\ beatIntensity.decays >= 3

\* The last n elements of sequence s, in order
LastN(s, n) == SubSeq(s, Len(s) - n + 1, Len(s))

Min(a, b) == IF a <= b THEN a ELSE b

\* C13: the energy window holds at most historyLength samples and is exactly
\* the most recent min(n, historyLength) of the n samples received, in arrival
\* order; the beat-time list holds at most 16 timestamps and is exactly the
\* most recent ones of the beats reported.
C13_WindowsAreBoundedFifo ==
    /\ Len(energyHistory) <= historyLength
    /\ energyHistory = LastN(fed, Min(Len(fed), historyLength))
    /\ Len(beatTimes) <= 16
    /\ beatTimes = LastN(reported, Min(Len(reported), 16))

C13_Witness ==
    /\ historyLength = DefaultHistoryLength
    /\ Len(fed) > 2 * historyLength
    /\ Len(reported) >= 18
    /\ Len(beatTimes) = 16
    /\ beatTimes[1] = reported[Len(reported) - 15]

\* The detector is past warm-up when its window holds at least 10 samples.
Active == Len(energyHistory) >= 10

\* C14: an update never takes the detector from ACTIVE back to WARMING_UP and
\* never shortens the window; only reset() leaves ACTIVE, and reset() empties
\* the energy window and the beat times and zeroes the beat counter, the BPM
\* estimate, the last-beat time, the beat flag and the intensity.
C14_WarmUpIsOneWay ==
    [][ /\ (lastCall'.op = "update" =>
                /\ (Active => Active')
                /\ Len(energyHistory') >= Len(energyHistory))
        /\ (Active /\ ~Active' => lastCall'.op = "reset")
        /\ (lastCall'.op = "reset" =>
                /\ ~Active'
                /\ energyHistory' = <<>>
                /\ beatTimes' = <<>>
                /\ beatCount' = 0
                /\ estimatedBPM' = 0
                /\ lastBeatTime' = 0
                /\ _isBeat' = FALSE
                /\ beatIntensity' = Zero) ]_vars

C14_Witness ==
    /\ lastCall.op = "reset"
    /\ lastCall.beats >= 2
    /\ historyLength = MinSamples
    /\ ~Active

\* C15: load returns false when no canvas is set or the id is not registered;
\* it returns true only with a canvas set and the id registered, and then a
\* new instance of the registered class exists, is the current demo and has
\* been started (init called once, first frame callback queued).
C15_LoadReturns ==
    [][ runnerCall'.op = "load" =>
            LET id == runnerCall'.args[1]
            IN  /\ runnerCall'.returned \in {"true", "false"}
                /\ (canvas = NoCanvas \/ id \notin DOMAIN registry
                        => runnerCall'.returned = "false")
                /\ (runnerCall'.returned = "true" =>
                        /\ canvas # NoCanvas
                        /\ id \in DOMAIN registry
                        /\ Len(demos') = Len(demos) + 1
                        /\ currentDemo' = Len(demos')
                        /\ demos'[currentDemo'].cls = registry[id]
                        /\ demos'[currentDemo'].isRunning
                        /\ demos'[currentDemo'].pending = 1
                        /\ runnerCall'.inits = 1) ]_vars

C15_Witness ==
    /\ runnerCall.op = "load"
    /\ runnerCall.args[1] = "fireworks"
    /\ runnerCall.returned = "true"
    /\ Len(demos) = 2
    /\ demos[2].cls = "FireworksDemo"
    /\ demos[2].isRunning

\* Instance i has been destroyed: stopped, its event listeners removed.
Destroyed(i) == ~demos[i].isRunning /\ ~demos[i].listeners

\* Every instance other than the current demo has been destroyed.
OnlyCurrentDemoLives == \A i \in 1 .. Len(demos) : i # currentDemo => Destroyed(i)

\* C16: at every moment every instance the runner created, except the current
\* demo, is stopped with its listeners removed, so at most one instance is
\* running and it is the current demo; an animation frame runs update and
\* render of no instance but the current demo.
C16_OnlyCurrentDemoRuns ==
    [][ /\ OnlyCurrentDemoLives
        /\ OnlyCurrentDemoLives'
        /\ \A i \in 1 .. Len(demos) :
                i # currentDemo' =>
                    /\ demos'[i].frameCount = demos[i].frameCount
                    /\ (runnerCall'.op = "frame" => runnerCall'.ran[i] = 0) ]_vars

C16_Witness ==
    /\ runnerCall.op = "frame"
    /\ Len(demos) = 2
    /\ currentDemo = 2
    /\ demos[1].frameCount >= 1
    /\ demos[1].pending = 0
    /\ demos[2].isRunning
    /\ demos[2].frameCount >= 1

\* C17: setOption with a demo active sets that demo's option, calls its
\* onOptionChange once and touches no other instance; with no demo active it
\* changes neither any instance nor the runner's stored options.
C17_SetOptionReachesActiveDemoOnly ==
    [][ runnerCall'.op = "setOption" =>
            LET name == runnerCall'.args[1]
                value == runnerCall'.args[2]
            IN  IF currentDemo # NoDemo
                THEN /\ name \in DOMAIN demos'[currentDemo].options
                     /\ demos'[currentDemo].options[name] = value
                     /\ runnerCall'.hooks = 1
                     /\ \A i \in 1 .. Len(demos) : i # currentDemo => demos'[i] = demos[i]
                ELSE /\ runnerCall'.hooks = 0
                     /\ demos' = demos
                     /\ currentOptions' = currentOptions
                     /\ UNCHANGED <<registry, canvas, currentDemo>> ]_vars

C17_Witness ==
    /\ runnerCall.op = "setOption"
    /\ runnerCall.hooks = 0
    /\ currentDemo = NoDemo
    /\ Len(demos) >= 1
    /\ currentOptions = [hue |-> 30, glow |-> 1]

\* C18: right after a successful load the new demo's options have exactly the
\* keys of its class defaults and of the caller's options, the caller's value
\* for every key the caller supplied and the default for every other key.
C18_OptionsAreDefaultsOverriddenByCaller ==
    runnerCall.op = "load" /\ runnerCall.returned = "true" =>
        LET d == demos[currentDemo]
            supplied == runnerCall.args[2]
            defaults == GetDefaultOptions(d.cls)
        IN  /\ DOMAIN d.options = DOMAIN defaults \cup DOMAIN supplied
            /\ \A k \in DOMAIN supplied : d.options[k] = supplied[k]
            /\ \A k \in DOMAIN defaults \ DOMAIN supplied : d.options[k] = defaults[k]

C18_Witness ==
    /\ runnerCall.op = "load"
    /\ runnerCall.returned = "true"
    /\ runnerCall.args[2] = [hue |-> 30, glow |-> 1]
    /\ demos[currentDemo].cls = "SimpleParticlesDemo"
    /\ demos[currentDemo].options =
            [particleCount |-> 150, speed |-> 1, hue |-> 30, glow |-> 1]

\* C19: an instance's frameCount starts at 0; an animation frame adds to it
\* one per callback that runs update and render and nothing when the demo is
\* stopped; no other step changes it, so it never decreases.
C19_FrameCountOnlyCountsUp ==
    [][ /\ \A i \in 1 .. Len(demos) :
              /\ demos'[i].frameCount >= demos[i].frameCount
              /\ IF runnerCall'.op = "frame"
                 THEN /\ demos'[i].frameCount = demos[i].frameCount + runnerCall'.ran[i]
                      /\ (~demos[i].isRunning => runnerCall'.ran[i] = 0)
                 ELSE demos'[i].frameCount = demos[i].frameCount
        /\ \A i \in (Len(demos) + 1) .. Len(demos') : demos'[i].frameCount = 0 ]_vars

C19_Witness ==
    /\ runnerCall.op = "resume"
    /\ runnerCall.inits = 1
    /\ currentDemo # NoDemo
    /\ demos[currentDemo].isRunning
    /\ demos[currentDemo].frameCount >= 1

\* C20: no instance ever has more than one frame callback queued, and no
\* animation frame runs update and render of an instance more than once.
C20_OneCallbackPerFrame ==
    /\ \A i \in 1 .. Len(demos) : demos[i].pending <= 1
    /\ runnerCall.op = "frame" =>
            \A i \in 1 .. Len(demos) : runnerCall.ran[i] <= 1

C22_FailedLoadChangesNothing ==
    [][ runnerCall'.op = "load" /\ runnerCall'.returned = "false" =>
            UNCHANGED <<registry, canvas, currentDemo, currentOptions, demos>> ]_vars

C22_Witness ==
    /\ runnerCall.op = "load"
    /\ runnerCall.returned = "false"
    /\ canvas # NoCanvas
    /\ currentDemo # NoDemo
    /\ demos[currentDemo].isRunning
    /\ currentOptions # EmptyObject

\* C23: pause keeps the current demo and only clears its running flag; resume
\* on a stopped current demo sets the flag again, calls init once and queues a
\* frame callback, keeping class, options, listeners and frameCount; pause and
\* resume with no current demo, and resume on a running one, change nothing.
C23_PauseAndResumeKeepTheInstance ==
    [][ /\ (runnerCall'.op \in {"pause", "resume"} =>
                /\ UNCHANGED <<registry, canvas, currentDemo, currentOptions>>
                /\ Len(demos') = Len(demos)
                /\ \A i \in 1 .. Len(demos) : i # currentDemo => demos'[i] = demos[i])
        /\ (runnerCall'.op = "pause" =>
                /\ runnerCall'.inits = 0
                /\ (currentDemo # NoDemo =>
                        demos'[currentDemo] = [demos[currentDemo] EXCEPT !.isRunning = FALSE]))
        /\ (runnerCall'.op = "resume" =>
                IF currentDemo # NoDemo /\ ~demos[currentDemo].isRunning
                THEN /\ runnerCall'.inits = 1
                     /\ demos'[currentDemo] =
                            [demos[currentDemo] EXCEPT !.isRunning = TRUE,
                                                       !.pending = @ + 1]
                ELSE /\ runnerCall'.inits = 0
                     /\ demos' = demos) ]_vars

C23_Witness ==
    /\ runnerCall.op = "resume"
    /\ runnerCall.inits = 1
    /\ currentDemo # NoDemo
    /\ demos[currentDemo].isRunning
    /\ demos[currentDemo].pending = 1
    /\ demos[currentDemo].frameCount = 2
    /\ demos[currentDemo].cls = "SimpleParticlesDemo"
    /\ demos[currentDemo].options.hue = 60

\* C24: every update that reports a beat has a timestamp greater than
\* cooldownMs, the first one after construction or reset() included.
C24_NoBeatWithinCooldownOfZero ==
    [][ lastCall'.op = "update" /\ _isBeat' =>
            /\ lastBeatTime' > cooldownMs
            /\ \A i \in 1 .. Len(reported') : reported'[i] > cooldownMs ]_vars

C24_Witness ==
    /\ lastCall.op = "update"
    /\ _isBeat
    /\ beatCount = 1
    /\ reported = <<cooldownMs + 1>>

\* C25: the BPM estimate is always 0 or between 30 and 300; an update never
\* takes a non-zero estimate back to 0, beat or no beat, and reset() does.
C25_BPMZeroOrInRange ==
    [][ /\ estimatedBPM = 0 \/ (estimatedBPM >= 30 /\ estimatedBPM <= 300)
        /\ estimatedBPM' = 0 \/ (estimatedBPM' >= 30 /\ estimatedBPM' <= 300)
        /\ (lastCall'.op = "update" /\ estimatedBPM # 0 => estimatedBPM' # 0)
        /\ (lastCall'.op = "reset" => estimatedBPM' = 0) ]_vars

C25_Witness ==
    /\ lastCall.op = "update"
    /\ ~_isBeat
    /\ estimatedBPM = 30
    /\ beatIntensity.decays >= 3

\* Sequence s is strictly increasing.
StrictlyIncreasing(s) == \A i \in 1 .. (Len(s) - 1) : s[i] < s[i + 1]

\* The beat bookkeeping agrees with the beats reported since construction or
\* the last reset.
BookkeepingConsistent ==
    /\ beatCount = Len(reported)
    /\ lastBeatTime = IF reported = <<>> THEN 0 ELSE reported[Len(reported)]
    /\ StrictlyIncreasing(reported)
    /\ StrictlyIncreasing(beatTimes)

\* C26: the beat flag after an update tells whether that update counted a
\* beat; the beat count is the number of updates that reported a beat, the
\* last-beat time is the timestamp of the latest of them, and the recorded
\* beat timestamps are strictly increasing, in whatever order the timestamps
\* are supplied.
C26_BookkeepingFollowsTheFlag ==
    [][ /\ BookkeepingConsistent
        /\ BookkeepingConsistent'
        /\ (lastCall'.op = "update" =>
                /\ (_isBeat' <=> beatCount' = beatCount + 1)
                /\ (~_isBeat' => beatCount' = beatCount /\ lastBeatTime' = lastBeatTime
                                    /\ beatTimes' = beatTimes)) ]_vars

C26_Witness ==
    /\ lastCall.op = "update"
    /\ ~_isBeat
    /\ beatCount = 3
    /\ Len(beatTimes) = 3
    /\ lastBeatTime = beatTimes[3]

\* What the constructor is to make of option opt: its value when it is given
\* and not 0, else the default.
Truthy(opt) == opt # <<>> /\ opt[1] # 0

\* C27: each configuration field is the option's value when that is given and
\* non-zero, and the default otherwise; no field is ever 0.
C27_ZeroOptionsFallBackToDefaults ==
    /\ sensitivity = IF Truthy(given.sensitivity) THEN given.sensitivity[1] ELSE 14
    /\ decayRate = IF Truthy(given.decayRate) THEN given.decayRate[1] ELSE 93
    /\ cooldownMs = IF Truthy(given.cooldownMs) THEN given.cooldownMs[1] ELSE 180
    /\ historyLength = IF Truthy(given.historyLength) THEN given.historyLength[1] ELSE 30
    /\ sensitivity # 0 /\ decayRate # 0 /\ cooldownMs # 0 /\ historyLength # 0

C27_Witness ==
    /\ given = [sensitivity |-> <<0>>, decayRate |-> <<82>>, cooldownMs |-> <<0>>,
                 historyLength |-> <<0>>]
    /\ sensitivity = DefaultSensitivity
    /\ decayRate = 82
    /\ cooldownMs = DefaultCooldownMs
    /\ historyLength = DefaultHistoryLength
    /\ Len(energyHistory) = historyLength

\* C28: a detector whose historyLength is below 10 never holds 10 samples and
\* so never reports a beat: the flag stays false and the beat count, the BPM
\* estimate and the intensity stay 0.
C28_ShortWindowNeverLeavesWarmUp ==
    historyLength >= 1 /\ historyLength <= 9 =>
        /\ Len(energyHistory) <= historyLength
        /\ ~Active
        /\ _isBeat = FALSE
        /\ beatCount = 0
        /\ estimatedBPM = 0
        /\ beatIntensity = Zero
        /\ reported = <<>>

C28_Witness ==
    /\ historyLength = 9
    /\ lastCall.op = "update"
    /\ energyHistory = <<0, 0, 0, 0, 0, 0, 0, 0, 100>>

\* C29: the packing never holds more circles than the maxCircles option allows.
C29_CirclesWithinMaxCircles == Len(circles) <= packingOptions.maxCircles

RECURSIVE TotalMass(_)
TotalMass(b) == IF b = <<>> THEN 0 ELSE Head(b).mass + TotalMass(Tail(b))

\* The central body is the first of the bodies and the only one marked so.
CentralBodyFirst(b) ==
    /\ Len(b) >= 1
    /\ b[1].central
    /\ \A i \in 2 .. Len(b) : ~b[i].central

\* b2 is b1 with a new body pushed and, past the limit, one smallest body
\* other than the central one taken out.
ClickOutcome(b1, b2) ==
    \E mass \in ClickMasses :
        LET pushed == Append(b1, Body(mass))
        IN  IF Len(pushed) <= MaxBodies
            THEN b2 = pushed
            ELSE \E k \in 2 .. Len(pushed) :
                    /\ \A i \in 2 .. Len(pushed) :
                           pushed[k].mass <= pushed[i].mass
                    /\ b2 = Splice(pushed, k)

\* b2 is b1 after one merge: a body is gone and a body of lower index has
\* gained its mass, all others keeping their order and mass.
OneMergeOutcome(b1, b2) ==
    \E i \in 2 .. Len(b1) : \E j \in 1 .. (i - 1) :
        b2 = Splice([b1 EXCEPT ![j].mass = b1[j].mass + b1[i].mass], i)

====
